---- MODULE Spec2Model ----
\* Model of the MBTA bus-data pipeline:
\*   src/generate-bus-data-api.py  (full-collection run, "first pass")
\*   src/retry-failed-routes.py    (repair run)
\* Python str values are sequences of one-character strings; Python dict, list,
\* str, float and None values (and so JSON documents) are trees of uniform
\* records, so that json.dump / json.loads and the text search of the repair
\* run are computed character by character.
EXTENDS Integers, Sequences, FiniteSets, TLC

\* ------------------------------------------------------------------ bounds
\* length of the route list the route collector returns
MaxRouteLen == 2
\* pieces an adversarial string value is concatenated from (round-trip check)
MaxPieces == 2

\* ------------------------------------------------------------- characters
NL == "\n"
TAB == "\t"
QUOTE == "\""
BSL == "\\"
Digits == <<"0", "1", "2", "3", "4", "5", "6", "7", "8", "9">>
DigitSet == {Digits[i] : i \in 1..10}
DigitVal(c) == (CHOOSE i \in 1..10 : Digits[i] = c) - 1

\* ------------------------------------------------- Python / JSON values
\* t: "obj" (dict, kids = key, value, key, value ... in insertion order),
\*    "arr" (list), "str", "num" (a float with a zero fraction), "null"
JNull == [t |-> "null", s |-> <<>>, n |-> 0, kids |-> <<>>]
JStr(str) == [t |-> "str", s |-> str, n |-> 0, kids |-> <<>>]
JNum(k) == [t |-> "num", s |-> <<>>, n |-> k, kids |-> <<>>]
JArr(items) == [t |-> "arr", s |-> <<>>, n |-> 0, kids |-> items]
JObj(members) == [t |-> "obj", s |-> <<>>, n |-> 0, kids |-> members]
EmptyDict == JObj(<<>>)
EmptyList == JArr(<<>>)

\* dict operations: keys(), `k in d`, d[k], d.get(k, default), d[k] = v
KeyIdx(d) == {j \in 1..Len(d.kids) : j % 2 = 1}
Keys(d) == {d.kids[j].s : j \in KeyIdx(d)}
Has(d, k) == k \in Keys(d)
Get(d, k) == d.kids[(CHOOSE j \in KeyIdx(d) : d.kids[j].s = k) + 1]
GetOr(d, k, default) == IF Has(d, k) THEN Get(d, k) ELSE default
\* a plausible slip: rebinding the dict to a fresh one holding only the new key
PutFresh(d, k, v) == JObj(<<JStr(k), v>>)
Put(d, k, v) ==
    IF Has(d, k)
    THEN JObj([j \in 1..Len(d.kids) |->
                 IF j % 2 = 0 /\ d.kids[j - 1].s = k THEN v ELSE d.kids[j]])
    ELSE JObj(d.kids \o <<JStr(k), v>>)
\* truthiness of a list: `if stops:`
Truthy(v) == v.kids # <<>>

\* --------------------------------------------------- json.dump(indent=2)
RECURSIVE Spaces(_)
Spaces(k) == IF k = 0 THEN <<>> ELSE <<" ">> \o Spaces(k - 1)
Indent(level) == Spaces(2 * level)

\* a plausible slip: writing the string raw between the quotes
EscapeRaw(str) == str
RECURSIVE EscapeFrom(_, _)
EscapeFrom(str, i) ==
    IF i > Len(str) THEN <<>>
    ELSE (CASE str[i] = QUOTE -> <<BSL, QUOTE>>
            [] str[i] = BSL -> <<BSL, BSL>>
            [] str[i] = NL -> <<BSL, "n">>
            [] str[i] = TAB -> <<BSL, "t">>
            [] OTHER -> <<str[i]>>) \o EscapeFrom(str, i + 1)
Escape(str) == EscapeFrom(str, 1)

RECURSIVE NatChars(_)
NatChars(k) == IF k < 10 THEN <<Digits[k + 1]>> ELSE NatChars(k \div 10) \o <<Digits[(k % 10) + 1]>>

RECURSIVE Dumps(_, _), DumpItems(_, _, _), DumpMembers(_, _, _)
DumpItems(kids, i, level) ==
    IF i > Len(kids) THEN <<>>
    ELSE (IF i > 1 THEN <<",">> ELSE <<>>) \o <<NL>> \o Indent(level)
         \o Dumps(kids[i], level) \o DumpItems(kids, i + 1, level)
DumpMembers(kids, i, level) ==
    IF i > Len(kids) THEN <<>>
    ELSE (IF i > 1 THEN <<",">> ELSE <<>>) \o <<NL>> \o Indent(level)
         \o <<QUOTE>> \o Escape(kids[i].s) \o <<QUOTE, ":", " ">>
         \o Dumps(kids[i + 1], level) \o DumpMembers(kids, i + 2, level)
Dumps(v, level) ==
    CASE v.t = "str" -> <<QUOTE>> \o Escape(v.s) \o <<QUOTE>>
      [] v.t = "num" -> NatChars(v.n) \o <<".", "0">>
      [] v.t = "null" -> <<"n", "u", "l", "l">>
      [] v.t = "arr" ->
           IF v.kids = <<>> THEN <<"[", "]">>
           ELSE <<"[">> \o DumpItems(v.kids, 1, level + 1) \o <<NL>> \o Indent(level) \o <<"]">>
      [] v.t = "obj" ->
           IF v.kids = <<>> THEN <<"{", "}">>
           ELSE <<"{">> \o DumpMembers(v.kids, 1, level + 1) \o <<NL>> \o Indent(level) \o <<"}">>
json_dump(v) == Dumps(v, 0)

\* ------------------------------------------------------------ json.loads
\* a parse result: ok, the value, and the index after it (1-based)
ParseFail == [ok |-> FALSE, v |-> JNull, i |-> 0]
ParseOk(v, i) == [ok |-> TRUE, v |-> v, i |-> i]
Ch(s, i) == IF i >= 1 /\ i <= Len(s) THEN s[i] ELSE ""
Whitespace == {" ", NL, TAB, "\r"}

RECURSIVE SkipWs(_, _)
SkipWs(s, i) == IF Ch(s, i) \in Whitespace THEN SkipWs(s, i + 1) ELSE i

\* the characters after the opening quote; a raw control character is an error
RECURSIVE ParseStr(_, _, _)
ParseStr(s, i, acc) ==
    LET c == Ch(s, i) IN
    CASE c = "" -> ParseFail
      [] c = QUOTE -> ParseOk(JStr(acc), i + 1)
      [] c \in {NL, TAB, "\r"} -> ParseFail
      [] c = BSL ->
           LET e == Ch(s, i + 1) IN
           CASE e = QUOTE -> ParseStr(s, i + 2, acc \o <<QUOTE>>)
             [] e = BSL -> ParseStr(s, i + 2, acc \o <<BSL>>)
             [] e = "/" -> ParseStr(s, i + 2, acc \o <<"/">>)
             [] e = "n" -> ParseStr(s, i + 2, acc \o <<NL>>)
             [] e = "t" -> ParseStr(s, i + 2, acc \o <<TAB>>)
             [] e = "r" -> ParseStr(s, i + 2, acc \o <<"\r">>)
             [] OTHER -> ParseFail
      [] OTHER -> ParseStr(s, i + 1, acc \o <<c>>)

RECURSIVE ParseInt(_, _, _)
ParseInt(s, i, acc) ==
    IF Ch(s, i) \in DigitSet THEN ParseInt(s, i + 1, acc * 10 + DigitVal(s[i]))
    ELSE [n |-> acc, i |-> i]
\* digits, optionally followed by a fraction; the values of the model have
\* the fraction ".0"
ParseNum(s, i) ==
    LET ip == ParseInt(s, i, 0) IN
    IF Ch(s, ip.i) # "." THEN ParseOk(JNum(ip.n), ip.i)
    ELSE LET fp == ParseInt(s, ip.i + 1, 0) IN
         IF fp.i = ip.i + 1 \/ fp.n # 0 THEN ParseFail
         ELSE ParseOk(JNum(ip.n), fp.i)

RECURSIVE ParseValue(_, _), ParseItems(_, _, _), ParseMembers(_, _, _)
\* after "[" or after a ","; acc is the list so far
ParseItems(s, i, acc) ==
    LET r == ParseValue(s, SkipWs(s, i)) IN
    IF ~r.ok THEN ParseFail
    ELSE LET j == SkipWs(s, r.i)
             acc2 == Append(acc, r.v) IN
         CASE Ch(s, j) = "," -> ParseItems(s, j + 1, acc2)
           [] Ch(s, j) = "]" -> ParseOk(JArr(acc2), j + 1)
           [] OTHER -> ParseFail
\* after "{" or after a ","; acc is the dict so far (a repeated key keeps its
\* place and takes the later value)
ParseMembers(s, i, acc) ==
    LET j == SkipWs(s, i) IN
    IF Ch(s, j) # QUOTE THEN ParseFail
    ELSE LET k == ParseStr(s, j + 1, <<>>) IN
         IF ~k.ok THEN ParseFail
         ELSE LET c == SkipWs(s, k.i) IN
              IF Ch(s, c) # ":" THEN ParseFail
              ELSE LET r == ParseValue(s, SkipWs(s, c + 1)) IN
                   IF ~r.ok THEN ParseFail
                   ELSE LET e == SkipWs(s, r.i)
                            acc2 == Put(acc, k.v.s, r.v) IN
                        CASE Ch(s, e) = "," -> ParseMembers(s, e + 1, acc2)
                          [] Ch(s, e) = "}" -> ParseOk(acc2, e + 1)
                          [] OTHER -> ParseFail
ParseValue(s, i) ==
    LET c == Ch(s, i) IN
    CASE c = QUOTE -> ParseStr(s, i + 1, <<>>)
      [] c \in DigitSet -> ParseNum(s, i)
      [] c = "n" ->
           IF <<Ch(s, i + 1), Ch(s, i + 2), Ch(s, i + 3)>> = <<"u", "l", "l">> THEN ParseOk(JNull, i + 4)
           ELSE ParseFail
      [] c = "[" ->
           LET j == SkipWs(s, i + 1) IN
           IF Ch(s, j) = "]" THEN ParseOk(EmptyList, j + 1) ELSE ParseItems(s, j, <<>>)
      [] c = "{" ->
           LET j == SkipWs(s, i + 1) IN
           IF Ch(s, j) = "}" THEN ParseOk(EmptyDict, j + 1) ELSE ParseMembers(s, j, EmptyDict)
      [] OTHER -> ParseFail
\* a plausible slip: text that does not parse is taken for an empty object
json_loads_lenient(s) ==
    LET r == ParseValue(s, SkipWs(s, 1)) IN
    IF r.ok /\ SkipWs(s, r.i) = Len(s) + 1 THEN r ELSE ParseOk(EmptyDict, Len(s) + 1)
\* json.loads: one value, surrounded by optional whitespace, and nothing else
json_loads(s) ==
    LET r == ParseValue(s, SkipWs(s, 1)) IN
    IF r.ok /\ SkipWs(s, r.i) = Len(s) + 1 THEN r ELSE ParseFail

\* ------------------------------------------------------- persisted formats
S_mbtaBusData == <<"m", "b", "t", "a", "B", "u", "s", "D", "a", "t", "a">>
S_busRouteShapes == <<"b", "u", "s", "R", "o", "u", "t", "e", "S", "h", "a", "p", "e", "s">>
S_const == <<"c", "o", "n", "s", "t", " ">>
S_assign == <<" ", "=", " ">>
\* "const mbtaBusData = ", "const busRouteShapes = ", "const busRouteShapes"
StopsPrefix == S_const \o S_mbtaBusData \o S_assign
ShapesPrefix == S_const \o S_busRouteShapes \o S_assign
ShapesName == S_const \o S_busRouteShapes
Terminator == <<";", NL, NL>>

\* the text of mbta-bus-data.js as the full-collection run writes it
write_js(mbta_bus_data, bus_route_shapes) ==
    StopsPrefix \o json_dump(mbta_bus_data) \o Terminator
    \o ShapesPrefix \o json_dump(bus_route_shapes) \o Terminator
\* the text of mbta-bus-data.js as the repair run writes it
retry_write_js(mbta_bus_data, bus_route_shapes) ==
    StopsPrefix \o json_dump(mbta_bus_data) \o Terminator
    \o ShapesPrefix \o json_dump(bus_route_shapes) \o Terminator
\* the text of mbta-bus-data.json (written by the full-collection run only)
write_json(mbta_bus_data, bus_route_shapes) ==
    json_dump(JObj(<<JStr(S_mbtaBusData), mbta_bus_data,
                     JStr(S_busRouteShapes), bus_route_shapes>>))

\* str.find(pat, start): positions are 0-based as in Python, -1 when absent
MatchAt(content, pat, p) == \A j \in 1..Len(pat) : content[p + j] = pat[j]
find(content, pat, start) ==
    LET hits == {p \in start..(Len(content) - Len(pat)) : MatchAt(content, pat, p)} IN
    IF hits = {} THEN -1 ELSE CHOOSE p \in hits : \A q \in hits : p <= q
\* content[a:b]
Slice(content, a, b) == SubSeq(content, a + 1, b)

\* the load of the repair run: the two values are located by their prefixes
\* and end delimiters, then parsed
NotLoaded == [ok |-> FALSE, mbta_bus_data |-> JNull, bus_route_shapes |-> JNull]
read_js(content) ==
    LET s0 == find(content, StopsPrefix, 0)
        mbta_bus_data_start == s0 + Len(StopsPrefix)
        mbta_bus_data_end == find(content, <<";", NL, NL>> \o ShapesName, mbta_bus_data_start)
        s1 == find(content, ShapesPrefix, mbta_bus_data_end)
        bus_route_shapes_start == s1 + Len(ShapesPrefix)
        bus_route_shapes_end == find(content, <<";", NL, NL>>, bus_route_shapes_start)
    IN
    IF s0 = -1 THEN NotLoaded
    ELSE IF mbta_bus_data_end = -1 THEN NotLoaded
    ELSE IF s1 = -1 THEN NotLoaded
    ELSE IF bus_route_shapes_end = -1 THEN NotLoaded
    ELSE LET a == json_loads(Slice(content, mbta_bus_data_start, mbta_bus_data_end))
             b == json_loads(Slice(content, bus_route_shapes_start, bus_route_shapes_end))
         IN IF a.ok /\ b.ok
            THEN [ok |-> TRUE, mbta_bus_data |-> a.v, bus_route_shapes |-> b.v]
            ELSE NotLoaded

\* ------------------------------------------------------------- records
S_name == <<"n", "a", "m", "e">>
S_coords == <<"c", "o", "o", "r", "d", "s">>
S_type == <<"t", "y", "p", "e">>
S_stopId == <<"s", "t", "o", "p", "I", "d">>
S_shape_id == <<"s", "h", "a", "p", "e", "_", "i", "d">>
S_polyline == <<"p", "o", "l", "y", "l", "i", "n", "e">>
S_Bus == <<"B", "u", "s">>
S_Unknown == <<"U", "n", "k", "n", "o", "w", "n">>
S_id == <<"i", "d">>
S_attributes == <<"a", "t", "t", "r", "i", "b", "u", "t", "e", "s">>
S_latitude == <<"l", "a", "t", "i", "t", "u", "d", "e">>
S_longitude == <<"l", "o", "n", "g", "i", "t", "u", "d", "e">>
S_data == <<"d", "a", "t", "a">>

\* a plausible slip: the coordinates the other way round
StopRecordSwapped(name, lat, lon, stopId) ==
    JObj(<<JStr(S_name), name, JStr(S_coords), JArr(<<JNum(lon), JNum(lat)>>),
           JStr(S_type), JStr(S_Bus), JStr(S_stopId), stopId>>)
StopRecord(name, lat, lon, stopId) ==
    JObj(<<JStr(S_name), name, JStr(S_coords), JArr(<<JNum(lat), JNum(lon)>>),
           JStr(S_type), JStr(S_Bus), JStr(S_stopId), stopId>>)
ShapeRecord(shape_id, polyline) ==
    JObj(<<JStr(S_shape_id), shape_id, JStr(S_polyline), polyline>>)

\* --------------------------------------------------------- the collectors
\* program constants of the retry loops
FirstPassMaxRetries == 3
FirstPassBackoffUnit == 2
FirstPassErrorDelay == 2
RepairMaxRetries == 5
RepairBackoffUnit == 3
RepairErrorDelay == 3

\* an upstream answer to requests.get: status 0 stands for an exception raised
\* by requests.get itself (no response); body is the decoded JSON body, or a
\* value of type "bad" for a body that is no JSON
JBad == [t |-> "bad", s |-> <<>>, n |-> 0, kids |-> <<>>]
Response(status, body) == [status |-> status, body |-> body]

\* the outcome of an expression that can raise
Raised == [raised |-> TRUE, v |-> JNull]
Value(v) == [raised |-> FALSE, v |-> v]

\* float(x): a number, or a string of digits; anything else raises
AllDigits(str) == str # <<>> /\ \A j \in 1..Len(str) : str[j] \in DigitSet
PyFloat(x) ==
    CASE x.t = "num" -> Value(JNum(x.n))
      [] x.t = "str" /\ AllDigits(x.s) -> Value(JNum(ParseInt(x.s, 1, 0).n))
      [] OTHER -> Raised

\* the loop over the raw stop entities
RECURSIVE FormatStopsFrom(_, _, _)
FormatStopsFrom(stops, i, formatted_stops) ==
    IF i > Len(stops) THEN Value(JArr(formatted_stops))
    ELSE LET stop == stops[i] IN
         IF stop.t # "obj" THEN Raised
         ELSE LET attributes == GetOr(stop, S_attributes, EmptyDict) IN
              IF attributes.t # "obj" THEN Raised
              ELSE IF Has(attributes, S_latitude) /\ Has(attributes, S_longitude)
              THEN LET lat == PyFloat(Get(attributes, S_latitude))
                       lon == PyFloat(Get(attributes, S_longitude)) IN
                   IF lat.raised \/ lon.raised \/ ~Has(stop, S_id) THEN Raised
                   ELSE FormatStopsFrom(stops, i + 1, Append(formatted_stops,
                          StopRecord(GetOr(attributes, S_name, JStr(S_Unknown)),
                                     lat.v.n, lon.v.n, Get(stop, S_id))))
              ELSE FormatStopsFrom(stops, i + 1, formatted_stops)
\* the loop over the raw shape entities
RECURSIVE FormatShapesFrom(_, _, _)
FormatShapesFrom(shapes, i, decoded_shapes) ==
    IF i > Len(shapes) THEN Value(JArr(decoded_shapes))
    ELSE LET shape == shapes[i] IN
         IF shape.t # "obj" THEN Raised
         ELSE LET attributes == GetOr(shape, S_attributes, EmptyDict) IN
              IF attributes.t # "obj" THEN Raised
              ELSE IF Has(attributes, S_polyline)
              THEN IF ~Has(shape, S_id) THEN Raised
                   ELSE FormatShapesFrom(shapes, i + 1, Append(decoded_shapes,
                          ShapeRecord(Get(shape, S_id), Get(attributes, S_polyline))))
              ELSE FormatShapesFrom(shapes, i + 1, decoded_shapes)
\* response.json(), data.get('data', []) and the conversion of the entities
FormatBody(kind, body) ==
    IF body.t # "obj" THEN Raised
    ELSE LET data == GetOr(body, S_data, EmptyList) IN
         IF data.t # "arr" THEN Raised
         ELSE IF kind = "stops" THEN FormatStopsFrom(data.kids, 1, <<>>)
              ELSE FormatShapesFrom(data.kids, 1, <<>>)

\* the state of one call of a collector: the attempt index, whether it has
\* returned or raised, the value returned, the sleeps made and the requests issued
CallStart == [attempt |-> 0, outcome |-> "running", result |-> EmptyList,
              sleeps |-> <<>>, requests |-> 0]
Sleep(st, seconds) == [st EXCEPT !.sleeps = Append(@, seconds)]
Return(st, v) == [st EXCEPT !.outcome = "returned", !.result = v]
\* plausible slips of the retry loop
HandleRaise(cfg, st) == [st EXCEPT !.outcome = "raised"]
RateLimitedFlat(cfg, st) ==
    IF st.attempt < cfg.max_retries - 1
    THEN [Sleep(st, cfg.backoff) EXCEPT !.attempt = @ + 1]
    ELSE Return(st, EmptyList)
\* the branch for status 429
RateLimited(cfg, st) ==
    IF st.attempt < cfg.max_retries - 1
    THEN [Sleep(st, (st.attempt + 1) * cfg.backoff) EXCEPT !.attempt = @ + 1]
    ELSE Return(st, EmptyList)
\* the except clause
HandleException(cfg, st) ==
    IF st.attempt < cfg.max_retries - 1
    THEN [Sleep(st, cfg.delay) EXCEPT !.attempt = @ + 1]
    ELSE Return(st, EmptyList)
\* one pass through the body of `for attempt in range(max_retries)`
Attempt(cfg, st0, resp) ==
    LET st == [st0 EXCEPT !.requests = @ + 1] IN
    IF resp.status = 0 THEN HandleException(cfg, st)
    ELSE IF resp.status = 429 THEN RateLimited(cfg, st)
    ELSE IF resp.status >= 400 THEN HandleException(cfg, st)
    ELSE LET fm == FormatBody(cfg.kind, resp.body) IN
         IF fm.raised THEN HandleException(cfg, st) ELSE Return(st, fm.v)
\* a whole call, given the upstream's answers in order
RECURSIVE Call(_, _, _, _)
Call(cfg, st, responses, i) ==
    IF st.outcome # "running" \/ i > Len(responses) THEN st
    ELSE Call(cfg, Attempt(cfg, st, responses[i]), responses, i + 1)

FirstPassStops == [max_retries |-> FirstPassMaxRetries, backoff |-> FirstPassBackoffUnit,
                   delay |-> FirstPassErrorDelay, kind |-> "stops"]
FirstPassShapes == [max_retries |-> FirstPassMaxRetries, backoff |-> FirstPassBackoffUnit,
                    delay |-> FirstPassErrorDelay, kind |-> "shapes"]
RepairStops == [max_retries |-> RepairMaxRetries, backoff |-> RepairBackoffUnit,
                delay |-> RepairErrorDelay, kind |-> "stops"]
RepairShapes == [max_retries |-> RepairMaxRetries, backoff |-> RepairBackoffUnit,
                 delay |-> RepairErrorDelay, kind |-> "shapes"]
\* generate-bus-data-api.py
get_route_stops(responses) == Call(FirstPassStops, CallStart, responses, 1)
get_route_shapes(responses) == Call(FirstPassShapes, CallStart, responses, 1)
\* retry-failed-routes.py
retry_get_route_stops(responses) == Call(RepairStops, CallStart, responses, 1)
retry_get_route_shapes(responses) == Call(RepairShapes, CallStart, responses, 1)

FetchIdle == [cfg |-> FirstPassStops, st |-> CallStart, hist |-> <<>>]

\* --------------------------------------------------------------- the state
VARIABLES
    jsFile,            \* mbta-bus-data.js: whether it exists and the dataset dumped into it
    jsonFile,          \* mbta-bus-data.json, likewise
    pc,                \* where the running script is; "idle" between runs
    routes,            \* the list the loop runs over (raw route entities, or routes_to_retry)
    idx,               \* the loop's position in it (1-based)
    mbta_bus_data,     \* the run's stops dict
    bus_route_shapes,  \* the run's shapes dict
    run,               \* observation: the kind of the latest run, how it ended, what the
                       \* upstream answered to its route-list request and how many
                       \* route-list requests it issued
    fullRoutes,        \* observation: the route ids the latest saved full run was given (a set)
    log,               \* observation: the collector calls and sleeps of the run in progress
    rt,                \* the round trip of one dataset (SpecRoundTrip)
    f                  \* one call of a collector (SpecFetch)
pipeline == <<jsFile, jsonFile, pc, routes, idx, mbta_bus_data, bus_route_shapes,
              run, fullRoutes, log>>
vars == <<pipeline, rt, f>>

\* a file is held as the dataset dumped into it and the damage done to its text
\* since ("none" for a file as the scripts wrote it)
NoFile == [exists |-> FALSE, mbta_bus_data |-> EmptyDict, bus_route_shapes |-> EmptyDict,
           damage |-> "none"]
File(stopsDict, shapesDict) ==
    [exists |-> TRUE, mbta_bus_data |-> stopsDict, bus_route_shapes |-> shapesDict,
     damage |-> "none"]
\* content with the n characters from (0-based) position a taken out
Remove(content, a, n) == SubSeq(content, 1, a) \o SubSeq(content, a + n + 1, Len(content))
\* what an edit or a broken write can leave of the text the scripts write
Damages == {"no_stops_prefix", "no_first_end", "no_shapes_assign", "no_end",
            "bad_json", "bad_json2"}
Damaged(content, damage) ==
    LET end1 == find(content, Terminator \o ShapesName, 0) IN
    CASE damage = "none" -> content
      \* 'const mbtaBusData = ' is gone
      [] damage = "no_stops_prefix" -> Remove(content, 0, Len(StopsPrefix))
      \* the ';' that ends the first value is gone
      [] damage = "no_first_end" -> Remove(content, end1, 1)
      \* ' = ' after 'const busRouteShapes' is gone
      [] damage = "no_shapes_assign" ->
           Remove(content, end1 + Len(Terminator) + Len(ShapesName), Len(S_assign))
      \* the last ';\n\n' is gone
      [] damage = "no_end" -> Remove(content, Len(content) - Len(Terminator), Len(Terminator))
      \* the first value has lost its closing brace
      [] damage = "bad_json" -> Remove(content, end1 - 1, 1)
      \* the second value has lost its closing brace
      [] damage = "bad_json2" -> Remove(content, Len(content) - Len(Terminator) - 1, 1)
\* the text of mbta-bus-data.js (the repair run writes the same text as the
\* full-collection run)
FileText(file) == Damaged(write_js(file.mbta_bus_data, file.bus_route_shapes), file.damage)
NoRun == [kind |-> "none", ended |-> "no", answer |-> "none", asked |-> 0]
PipelineInit ==
    /\ jsFile = NoFile
    /\ jsonFile = NoFile
    /\ pc = "idle"
    /\ routes = <<>>
    /\ idx = 1
    /\ mbta_bus_data = EmptyDict
    /\ bus_route_shapes = EmptyDict
    /\ run = NoRun
    /\ fullRoutes = {}
    /\ log = <<>>

\* ------------------------------------------- round trip of the embedded file
\* string values built from the characters of the delimiters and of the escapes
Pieces == {<<";">>, <<NL>>, Terminator, ShapesName, <<QUOTE>>, <<BSL>>}
RECURSIVE PieceStrings(_)
PieceStrings(k) ==
    IF k = 0 THEN {<<>>}
    ELSE LET shorter == PieceStrings(k - 1) IN
         shorter \cup {s \o p : s \in shorter, p \in Pieces}
\* where the string is put in the dataset
Places == {"key", "name", "stopId", "shape_id", "polyline", "all"}
Plain(c) == <<c>>
RtDataset(str, place, variant) ==
    LET at(pl, plain) == IF place \in {pl, "all"} THEN str ELSE plain
        key == at("key", Plain("1"))
        stop == StopRecord(JStr(at("name", Plain("a"))), 4, 7, JStr(at("stopId", Plain("b"))))
        shape == ShapeRecord(JStr(at("shape_id", Plain("c"))), JStr(at("polyline", Plain("d"))))
        one == JObj(<<JStr(key), JArr(<<stop>>)>>)
        two == JObj(<<JStr(key), JArr(<<shape, shape>>), JStr(Plain("4")), JArr(<<shape>>)>>)
    IN [mbta_bus_data |-> IF variant \in {"none", "shapes"} THEN EmptyDict ELSE one,
        bus_route_shapes |-> IF variant \in {"none", "stops"} THEN EmptyDict ELSE two]
Variants == {"none", "stops", "shapes", "both"}
RtIdle == [phase |-> "off", d |-> RtDataset(<<>>, "all", "none"), text |-> <<>>, read |-> NotLoaded]

RtInit ==
    /\ rt \in {[phase |-> "data", d |-> RtDataset(str, place, variant), text |-> <<>>,
                read |-> NotLoaded] :
                 str \in PieceStrings(MaxPieces), place \in Places, variant \in Variants}
    /\ f = FetchIdle
    /\ PipelineInit
\* the full-collection run writes the dataset
RtWriteFirst ==
    /\ rt.phase = "data"
    /\ rt' = [rt EXCEPT !.phase = "text",
                        !.text = write_js(rt.d.mbta_bus_data, rt.d.bus_route_shapes)]
    /\ UNCHANGED <<f, pipeline>>
\* the repair run writes the dataset
RtWriteRepair ==
    /\ rt.phase = "data"
    /\ rt' = [rt EXCEPT !.phase = "text",
                        !.text = retry_write_js(rt.d.mbta_bus_data, rt.d.bus_route_shapes)]
    /\ UNCHANGED <<f, pipeline>>
\* the repair run reads it back
RtRead ==
    /\ rt.phase = "text"
    /\ rt' = [rt EXCEPT !.phase = "read", !.read = read_js(rt.text)]
    /\ UNCHANGED <<f, pipeline>>
RtNext == RtWriteFirst \/ RtWriteRepair \/ RtRead
SpecRoundTrip == RtInit /\ [][RtNext]_vars

\* C8: the delimiter-based read of the embedded text recovers the dataset
\* written, for every dataset (empty maps, values holding ';', newlines, quotes,
\* backslashes, the terminator or the text 'const busRouteShapes'); the first
\* value ends at the first ';\n\nconst busRouteShapes' and the second at the
\* first ';\n\n' after its prefix, and neither delimiter occurs inside a payload.
C8_RoundTrip ==
    LET a == json_dump(rt.d.mbta_bus_data)
        b == json_dump(rt.d.bus_route_shapes)
        end1 == Len(StopsPrefix) + Len(a)
        start2 == end1 + Len(Terminator) + Len(ShapesPrefix)
    IN
    /\ rt.phase = "read" =>
         /\ rt.read.ok
         /\ rt.read.mbta_bus_data = rt.d.mbta_bus_data
         /\ rt.read.bus_route_shapes = rt.d.bus_route_shapes
    /\ rt.phase = "text" =>
         /\ find(rt.text, Terminator \o ShapesName, Len(StopsPrefix)) = end1
         /\ find(rt.text, Terminator, start2) = start2 + Len(b)
         /\ find(a, Terminator, 0) = -1
         /\ find(b, Terminator, 0) = -1
\* a dataset whose values hold the whole first delimiter was written and read
C8_Witness ==
    /\ rt.phase = "read"
    /\ rt.read.ok
    /\ \E r \in Keys(rt.d.mbta_bus_data) :
         Get(Get(rt.d.mbta_bus_data, r).kids[1], S_name).s = Terminator \o ShapesName
    /\ \E r \in Keys(rt.d.bus_route_shapes) :
         Get(Get(rt.d.bus_route_shapes, r).kids[1], S_polyline).s = Terminator \o ShapesName

\* ------------------------------------------------ one call of a collector
\* raw entities and bodies the upstream can answer with
Entity(id, attributes) == JObj(<<JStr(S_id), JStr(id), JStr(S_attributes), JObj(attributes)>>)
StopEntity(id, name, lat, lon) ==
    Entity(id, <<JStr(S_name), JStr(name), JStr(S_latitude), lat, JStr(S_longitude), lon>>)
ShapeEntity(id, polyline) == Entity(id, <<JStr(S_polyline), JStr(polyline)>>)
Body(entities) == JObj(<<JStr(S_data), JArr(entities)>>)

TransportError == Response(0, JBad)
TooManyRequests == Response(429, JBad)
ServerError == Response(500, JBad)
NotJson == Response(200, JBad)
NoEntities == Response(200, Body(<<>>))
GoodStop == StopEntity(<<"s">>, <<"a">>, JNum(4), JNum(7))
GoodStops == Response(200, Body(<<GoodStop>>))
\* an entity without coordinates next to a good one
PartStops == Response(200, Body(<<Entity(<<"t">>, <<JStr(S_name), JStr(<<"X">>)>>), GoodStop>>))
\* an entity whose latitude is null next to a good one
NullLatStops == Response(200, Body(<<StopEntity(<<"t">>, <<"b">>, JNull, JNum(7)), GoodStop>>))
GoodShape == ShapeEntity(<<"p">>, <<"e", "n", "c">>)
GoodShapes == Response(200, Body(<<GoodShape>>))
\* an entity without a polyline next to a good one
PartShapes == Response(200, Body(<<Entity(<<"q">>, <<JStr(S_name), JStr(<<"X">>)>>), GoodShape>>))
\* an entity with a polyline and no id next to a good one
NoIdShapes ==
    Response(200, Body(<<JObj(<<JStr(S_attributes),
                                 JObj(<<JStr(S_polyline), JStr(<<"e">>)>>)>>), GoodShape>>))
\* two good entities with one that lacks the attribute between them
OtherStop == StopEntity(<<"u">>, <<"b">>, JNum(12), JNum(9))
TwoStops ==
    Response(200, Body(<<GoodStop, Entity(<<"t">>, <<JStr(S_name), JStr(<<"X">>)>>), OtherStop>>))
OtherShape == ShapeEntity(<<"q">>, <<"d", "e">>)
TwoShapes ==
    Response(200, Body(<<GoodShape, Entity(<<"t">>, <<JStr(S_name), JStr(<<"X">>)>>), OtherShape>>))
Answers(kind) ==
    {TransportError, TooManyRequests, ServerError, NotJson, NoEntities}
    \cup (IF kind = "stops" THEN {GoodStops, PartStops, NullLatStops, TwoStops}
          ELSE {GoodShapes, PartShapes, NoIdShapes, TwoShapes})
Collectors == {FirstPassStops, FirstPassShapes, RepairStops, RepairShapes}

FetchInit ==
    /\ f \in {[cfg |-> c, st |-> CallStart, hist |-> <<>>] : c \in Collectors}
    /\ rt = RtIdle
    /\ PipelineInit
\* the collector issues one request and handles the upstream's answer
FetchAttempt ==
    /\ f.st.outcome = "running"
    /\ \E resp \in Answers(f.cfg.kind) :
         f' = [f EXCEPT !.st = Attempt(f.cfg, f.st, resp), !.hist = Append(@, resp)]
    /\ UNCHANGED <<rt, pipeline>>
FetchNext == FetchAttempt
SpecFetch == FetchInit /\ [][FetchNext]_vars

\* the records a successful answer stands for
GoodStopRecord == StopRecord(JStr(<<"a">>), 4, 7, JStr(<<"s">>))
GoodShapeRecord == ShapeRecord(JStr(<<"p">>), JStr(<<"e", "n", "c">>))
OtherStopRecord == StopRecord(JStr(<<"b">>), 12, 9, JStr(<<"u">>))
OtherShapeRecord == ShapeRecord(JStr(<<"q">>), JStr(<<"d", "e">>))
RecordsOf(resp) ==
    CASE resp = NoEntities -> EmptyList
      [] resp \in {GoodStops, PartStops} -> JArr(<<GoodStopRecord>>)
      [] resp \in {GoodShapes, PartShapes} -> JArr(<<GoodShapeRecord>>)
      [] resp = TwoStops -> JArr(<<GoodStopRecord, OtherStopRecord>>)
      [] resp = TwoShapes -> JArr(<<GoodShapeRecord, OtherShapeRecord>>)
Successes == {NoEntities, GoodStops, PartStops, GoodShapes, PartShapes, TwoStops, TwoShapes}
\* answers the collector treats as an error other than 429
Errors == {TransportError, ServerError, NotJson, NullLatStops, NoIdShapes}
CapOf(cfg) == IF cfg \in {FirstPassStops, FirstPassShapes} THEN 3 ELSE 5
UnitOf(cfg) == IF cfg \in {FirstPassStops, FirstPassShapes} THEN 2 ELSE 3

\* C9: when the upstream answers 429 on the first k attempts (k < N) and a
\* successful 200 on attempt k+1, the call returns the records of that answer
\* and has slept u*1, u*2, ..., u*k, that is u*(1+...+k) in total; the wait after
\* attempt index i is (i+1)*u  (N=3, u=2 in the first pass; N=5, u=3 in repair).
RECURSIVE SumSeq(_)
SumSeq(s) == IF s = <<>> THEN 0 ELSE Head(s) + SumSeq(Tail(s))
C9_Backoff ==
    LET k == Len(f.hist) - 1
        u == UnitOf(f.cfg) IN
    (/\ f.hist # <<>>
     /\ k < CapOf(f.cfg)
     /\ \A i \in 1..k : f.hist[i] = TooManyRequests
     /\ f.hist[k + 1] \in Successes)
    => /\ f.st.outcome = "returned"
       /\ f.st.result = RecordsOf(f.hist[k + 1])
       /\ f.st.sleeps = [i \in 1..k |-> i * u]
       /\ 2 * SumSeq(f.st.sleeps) = u * k * (k + 1)
\* 429, 429, 200 with cap 3: the payload is returned after sleeping 2 + 4
C9_Witness ==
    /\ f.cfg = FirstPassStops
    /\ f.hist = <<TooManyRequests, TooManyRequests, GoodStops>>
    /\ f.st.outcome = "returned"
    /\ f.st.result = JArr(<<GoodStopRecord>>)
    /\ f.st.sleeps = <<2, 4>>

\* C10: for every interleaving of 429 answers and other errors, one call issues
\* at most N requests, sleeps a flat u seconds after a non-429 error whatever the
\* attempt index, does not sleep after the N-th failed attempt, and when all N
\* attempts fail returns the empty list instead of raising.
C10_Bounded ==
    LET n == CapOf(f.cfg)
        u == UnitOf(f.cfg)
        allFailed == \A i \in 1..Len(f.hist) : f.hist[i] \in Errors \cup {TooManyRequests} IN
    /\ f.st.requests = Len(f.hist)
    /\ f.st.requests <= n
    /\ f.st.outcome # "raised"
    /\ \A i \in 1..Len(f.hist) :
         (f.hist[i] \in Errors /\ i < n) => (Len(f.st.sleeps) >= i /\ f.st.sleeps[i] = u)
    /\ Len(f.st.sleeps) <= n - 1
    /\ (allFailed /\ Len(f.hist) = n) =>
         (f.st.outcome = "returned" /\ f.st.result = EmptyList /\ Len(f.st.sleeps) = n - 1)
    /\ (allFailed /\ Len(f.hist) < n) => f.st.outcome = "running"
\* five failed attempts of a repair call, 429 and errors interleaved
C10_Witness ==
    /\ f.cfg = RepairShapes
    /\ f.hist = <<TransportError, TooManyRequests, ServerError, TooManyRequests, NotJson>>
    /\ f.st.outcome = "returned"
    /\ f.st.result = EmptyList
    /\ f.st.sleeps = <<3, 6, 3, 12>>

\* C11: a malformed entity in a 200 answer (a stop whose latitude is null, a
\* shape without an id) is dropped silently: the well-formed entities of the
\* same answer are returned and no further request is issued.
C11_MalformedDropped ==
    \A i \in 1..Len(f.hist) :
      f.hist[i] \in {NullLatStops, NoIdShapes} =>
        /\ Len(f.hist) = i
        /\ f.st.outcome = "returned"
        /\ f.st.result = (IF f.hist[i] = NullLatStops THEN JArr(<<GoodStopRecord>>)
                          ELSE JArr(<<GoodShapeRecord>>))

\* C12: on a successful answer the stop collector returns the entities whose
\* attributes hold both a latitude and a longitude key, in the order of the
\* answer, each tagged 'Bus' (an entity with a name and no coordinates is left
\* out); the shape collector returns the entities whose attributes hold a
\* polyline key, in the order of the answer, the polyline unchanged.
Attr(e, k) == Get(Get(e, S_attributes), k)
HasAttr(e, k) == Has(Get(e, S_attributes), k)
KeepsStop(e) == HasAttr(e, S_latitude) /\ HasAttr(e, S_longitude)
KeepsShape(e) == HasAttr(e, S_polyline)
Entities(resp) == Get(resp.body, S_data).kids
C12_FilterInOrder ==
    (f.hist # <<>> /\ f.hist[Len(f.hist)] \in Successes) =>
      LET raw == Entities(f.hist[Len(f.hist)])
          got == f.st.result.kids IN
      /\ f.st.outcome = "returned"
      /\ IF f.cfg.kind = "stops"
         THEN LET kept == SelectSeq(raw, KeepsStop) IN
              /\ Len(got) = Len(kept)
              /\ \A j \in 1..Len(kept) :
                   /\ Get(got[j], S_stopId) = Get(kept[j], S_id)
                   /\ Get(got[j], S_name) = Attr(kept[j], S_name)
                   /\ Get(got[j], S_coords) =
                        JArr(<<Attr(kept[j], S_latitude), Attr(kept[j], S_longitude)>>)
                   /\ Get(got[j], S_type) = JStr(S_Bus)
         ELSE LET kept == SelectSeq(raw, KeepsShape) IN
              /\ Len(got) = Len(kept)
              /\ \A j \in 1..Len(kept) :
                   /\ Get(got[j], S_shape_id) = Get(kept[j], S_id)
                   /\ Get(got[j], S_polyline) = Attr(kept[j], S_polyline)
\* a stop call and a shape call have each returned two of three entities
C12_Witness ==
    /\ f.hist # <<>>
    /\ f.hist[Len(f.hist)] \in {TwoStops, TwoShapes}
    /\ Len(f.st.result.kids) = 2
    /\ f.st.requests = Len(f.hist)

\* ------------------------------------------------------------ the two runs
Routes == {<<"1">>, <<"4">>}
RECURSIVE ListsUpTo(_)
ListsUpTo(k) ==
    IF k = 0 THEN {<<>>}
    ELSE LET shorter == ListsUpTo(k - 1) IN shorter \cup {Append(l, r) : l \in shorter, r \in Routes}
RouteEntity(id) == Entity(id, <<JStr(<<"l", "o", "n", "g", "_", "n", "a", "m", "e">>), JStr(<<"R">>)>>)
\* a route entity without an id
NoIdRoute ==
    JObj(<<JStr(S_attributes),
           JObj(<<JStr(<<"l", "o", "n", "g", "_", "n", "a", "m", "e">>), JStr(<<"R">>)>>)>>)
\* what the upstream answers to the route-list request
RouteAnswers ==
    {TransportError, TooManyRequests}
    \cup {Response(200, Body([j \in 1..Len(l) |-> RouteEntity(l[j])])) : l \in ListsUpTo(MaxRouteLen)}
    \cup {Response(200, Body(<<NoIdRoute>>)), Response(200, Body(<<RouteEntity(<<"1">>), NoIdRoute>>))}
\* observation: the kind of answer the route-list request got
AnswerKind(resp) ==
    CASE resp.status = 429 -> "429"
      [] resp.status = 0 \/ (resp.status >= 400 /\ resp.status # 429) -> "error"
      [] OTHER -> IF resp.body.t = "obj" /\ GetOr(resp.body, S_data, EmptyList) = EmptyList
                  THEN "empty" ELSE "routes"
\* get_bus_routes: one request; any exception gives []
get_bus_routes(resp) ==
    IF resp.status = 0 \/ resp.status >= 400 THEN EmptyList
    ELSE IF resp.body.t # "obj" THEN EmptyList
    ELSE GetOr(resp.body, S_data, EmptyList)

\* the upstream's data for a route differs between the runs and within a run:
\* an answer carries the kind of the run and whether the same collector was
\* called for the route earlier in that run
Asked(ev, route_id) == \E j \in 1..Len(log) : log[j].ev = ev /\ log[j].route = route_id
Stamp(ev, route_id) ==
    (IF run.kind = "full" THEN <<"f">> ELSE <<"r">>)
    \o (IF Asked(ev, route_id) THEN <<"2">> ELSE <<"1">>)
FreshStops(route_id) ==
    Response(200, Body(<<StopEntity(<<"s">>, Stamp("stops", route_id), JNum(4), JNum(7))>>))
FreshShapes(route_id) ==
    Response(200, Body(<<ShapeEntity(<<"p">>, Stamp("shapes", route_id))>>))
RECURSIVE Repeat(_, _)
Repeat(x, k) == IF k = 0 THEN <<>> ELSE <<x>> \o Repeat(x, k - 1)
\* the answers to one call: an empty or a fresh answer, at once or after
\* cap - 1 failures of one kind, or cap failures of one kind
AnswerLists(cap, fresh) ==
    {Repeat(x, k) \o <<a>> : x \in {TooManyRequests, TransportError}, k \in {0, cap - 1},
                             a \in {NoEntities, fresh}}
    \cup {Repeat(x, cap) : x \in {TooManyRequests, TransportError}}

\* `if stops: mbta_bus_data[route_id] = stops` of the first pass
StoreAlways(d, route_id, records) == Put(d, route_id, records)
Store(d, route_id, records) ==
    IF Truthy(records) THEN Put(d, route_id, records) ELSE d
\* the same statement of the repair run
StoreFresh(d, route_id, records) ==
    IF Truthy(records) THEN PutFresh(d, route_id, records) ELSE d
retry_Store(d, route_id, records) ==
    IF Truthy(records) THEN Put(d, route_id, records) ELSE d
\* `if route_id not in mbta_bus_data` / `not in bus_route_shapes` of the repair run
Always(d, route_id) == TRUE
Missing(d, route_id) == ~Has(d, route_id)

Event(ev, route_id, got, ms) == [ev |-> ev, route |-> route_id, got |-> got, ms |-> ms]
RouteId(route) == Get(route, S_id).s

\* generate_bus_data up to the loop: the route list is fetched, and the run
\* ends there when it is empty
\* a plausible slip: the run goes on with an empty route list
NeverReturns(got) == FALSE
\* `if not routes: return`
ReturnsEarly(got) == ~Truthy(got)
StartFull ==
    /\ pc = "idle"
    /\ \E resp \in RouteAnswers :
         LET got == get_bus_routes(resp)
             \* get_bus_routes issues one request
             began == [kind |-> "full", ended |-> "no", answer |-> AnswerKind(resp), asked |-> 1]
         IN
         /\ IF ReturnsEarly(got)
            THEN /\ run' = [began EXCEPT !.ended = "aborted"]
                 /\ log' = <<>>
                 /\ UNCHANGED <<pc, routes, idx, mbta_bus_data, bus_route_shapes>>
            ELSE /\ run' = began
                 /\ log' = <<Event("routes", <<>>, TRUE, 0)>>
                 /\ pc' = IF got.kids = <<>> THEN "full_save" ELSE "full_loop"
                 /\ routes' = got.kids
                 /\ idx' = 1
                 /\ mbta_bus_data' = EmptyDict
                 /\ bus_route_shapes' = EmptyDict
    /\ UNCHANGED <<jsFile, jsonFile, fullRoutes, rt, f>>
\* one pass through the loop body: the stops and then the shapes of the route
\* are fetched, each result is stored when it is not empty, and the loop
\* sleeps 0.5 s
\* the script returns: its variables are gone
EndOfRun ==
    /\ pc' = "idle"
    /\ routes' = <<>>
    /\ idx' = 1
    /\ mbta_bus_data' = EmptyDict
    /\ bus_route_shapes' = EmptyDict
    /\ log' = <<>>
FullRoute ==
    /\ pc = "full_loop"
    /\ IF routes[idx].t # "obj" \/ ~Has(routes[idx], S_id)
       THEN \* route['id'] raises, nothing catches it: the script dies, no file is written
            /\ run' = [run EXCEPT !.ended = "raised"]
            /\ EndOfRun
            /\ UNCHANGED <<jsFile, jsonFile, fullRoutes, rt, f>>
       ELSE /\ LET route_id == RouteId(routes[idx]) IN
               \E stops \in {get_route_stops(a).result :
                               a \in AnswerLists(FirstPassMaxRetries, FreshStops(route_id))},
                  shapes \in {get_route_shapes(a).result :
                                a \in AnswerLists(FirstPassMaxRetries, FreshShapes(route_id))} :
                 /\ mbta_bus_data' = Store(mbta_bus_data, route_id, stops)
                 /\ bus_route_shapes' = Store(bus_route_shapes, route_id, shapes)
                 /\ log' = log \o <<Event("stops", route_id, Truthy(stops), 0),
                                    Event("shapes", route_id, Truthy(shapes), 0),
                                    Event("sleep", route_id, FALSE, 500)>>
            /\ idx' = idx + 1
            /\ pc' = IF idx = Len(routes) THEN "full_save" ELSE "full_loop"
            /\ UNCHANGED <<jsFile, jsonFile, routes, run, fullRoutes, rt, f>>
\* after the loop: both files are written from the run's two dicts
FullSave ==
    /\ pc = "full_save"
    /\ jsFile' = File(mbta_bus_data, bus_route_shapes)
    /\ jsonFile' = File(mbta_bus_data, bus_route_shapes)
    /\ run' = [run EXCEPT !.ended = "saved"]
    /\ fullRoutes' = {RouteId(routes[j]) : j \in 1..Len(routes)}
    /\ EndOfRun
    /\ UNCHANGED <<rt, f>>

\* the orders a Python set can be listed in
Orders(S) == {l \in [1..Cardinality(S) -> S] : \A a, b \in 1..Cardinality(S) : a # b => l[a] # l[b]}
\* retry_failed_routes up to the loop: the file is read and parsed, the
\* incomplete routes are listed, and the run ends there when the file is
\* missing or unreadable or no route is incomplete
StartRepair ==
    /\ pc = "idle"
    /\ log' = <<>>
    /\ LET loaded == IF jsFile.exists
                     THEN read_js(FileText(jsFile))
                     ELSE NotLoaded
           began == [kind |-> "repair", ended |-> "no", answer |-> "none", asked |-> 0]
       IN
       IF ~loaded.ok
       THEN /\ run' = [began EXCEPT !.ended = "aborted"]
            /\ UNCHANGED <<pc, routes, idx, mbta_bus_data, bus_route_shapes>>
       ELSE IF loaded.mbta_bus_data.t # "obj" \/ loaded.bus_route_shapes.t # "obj"
       THEN \* len() or .keys() of a value that is no dict raises, nothing catches it
            /\ run' = [began EXCEPT !.ended = "raised"]
            /\ UNCHANGED <<pc, routes, idx, mbta_bus_data, bus_route_shapes>>
       ELSE LET routes_with_stops_only == Keys(loaded.mbta_bus_data) \ Keys(loaded.bus_route_shapes)
                routes_with_shapes_only == Keys(loaded.bus_route_shapes) \ Keys(loaded.mbta_bus_data)
            IN \E a \in Orders(routes_with_stops_only), b \in Orders(routes_with_shapes_only) :
                 LET routes_to_retry == a \o b IN
                 IF routes_to_retry = <<>>
                    THEN /\ run' = [began EXCEPT !.ended = "nothing"]
                         /\ UNCHANGED <<pc, routes, idx, mbta_bus_data, bus_route_shapes>>
                    ELSE /\ run' = began
                         /\ pc' = "repair_loop"
                         /\ routes' = routes_to_retry
                         /\ idx' = 1
                         /\ mbta_bus_data' = loaded.mbta_bus_data
                         /\ bus_route_shapes' = loaded.bus_route_shapes
    /\ UNCHANGED <<jsFile, jsonFile, fullRoutes, rt, f>>
\* one pass through the loop body: the missing half is fetched and stored, and
\* the loop sleeps 1 s
RepairRoute ==
    /\ pc = "repair_loop"
    /\ LET route_id == routes[idx]
           wantStops == Missing(mbta_bus_data, route_id)
           stopResults == IF wantStops
                          THEN {retry_get_route_stops(a).result :
                                  a \in AnswerLists(RepairMaxRetries, FreshStops(route_id))}
                          ELSE {EmptyList}
       IN
       \E stops \in stopResults :
         LET data1 == IF wantStops THEN retry_Store(mbta_bus_data, route_id, stops)
                      ELSE mbta_bus_data
             wantShapes == Missing(bus_route_shapes, route_id)
             shapeResults == IF wantShapes
                             THEN {retry_get_route_shapes(a).result :
                                     a \in AnswerLists(RepairMaxRetries, FreshShapes(route_id))}
                             ELSE {EmptyList}
         IN
         \E shapes \in shapeResults :
           /\ mbta_bus_data' = data1
           /\ bus_route_shapes' = IF wantShapes
                                  THEN retry_Store(bus_route_shapes, route_id, shapes)
                                  ELSE bus_route_shapes
           /\ log' = log
                     \o (IF wantStops THEN <<Event("stops", route_id, Truthy(stops), 0)>>
                         ELSE <<>>)
                     \o (IF wantShapes THEN <<Event("shapes", route_id, Truthy(shapes), 0)>>
                         ELSE <<>>)
                     \o <<Event("sleep", route_id, FALSE, 1000)>>
    /\ idx' = idx + 1
    /\ pc' = IF idx = Len(routes) THEN "repair_save" ELSE "repair_loop"
    /\ UNCHANGED <<jsFile, jsonFile, routes, run, fullRoutes, rt, f>>
\* after the loop: mbta-bus-data.js is rewritten (and only that file)
RepairSave ==
    /\ pc = "repair_save"
    /\ jsFile' = File(mbta_bus_data, bus_route_shapes)
    /\ run' = [run EXCEPT !.ended = "saved"]
    /\ EndOfRun
    /\ UNCHANGED <<jsonFile, fullRoutes, rt, f>>

Init == PipelineInit /\ rt = RtIdle /\ f = FetchIdle
Next == StartFull \/ FullRoute \/ FullSave \/ StartRepair \/ RepairRoute \/ RepairSave
Spec == Init /\ [][Next]_vars
\* the same runs, with every pending step of a repair run eventually taken (a
\* script that has been started keeps running)
SpecLive == Spec /\ WF_vars(RepairRoute) /\ WF_vars(RepairSave)

\* ------------------------------------------- runs over a file found damaged
\* a file with a stops-only and a shapes-only route
IncompleteStops == JObj(<<JStr(<<"1">>), JArr(<<StopRecord(JStr(<<"f", "1">>), 4, 7, JStr(<<"s">>))>>)>>)
IncompleteShapes == JObj(<<JStr(<<"4">>), JArr(<<ShapeRecord(JStr(<<"p">>), JStr(<<"f", "1">>))>>)>>)
\* mbta-bus-data.js as the runs may find it: absent, written by the scripts,
\* damaged, or holding values that are JSON and no objects
FoundFiles ==
    {NoFile, File(IncompleteStops, IncompleteShapes)}
    \cup {[File(IncompleteStops, IncompleteShapes) EXCEPT !.damage = g] : g \in Damages}
    \cup {File(EmptyList, EmptyList), File(IncompleteStops, JNum(5)), File(JNull, IncompleteShapes)}
FoundInit ==
    /\ jsFile \in FoundFiles
    /\ jsonFile = NoFile
    /\ pc = "idle"
    /\ routes = <<>>
    /\ idx = 1
    /\ mbta_bus_data = EmptyDict
    /\ bus_route_shapes = EmptyDict
    /\ run = NoRun
    /\ fullRoutes = {}
    /\ log = <<>>
    /\ rt = RtIdle
    /\ f = FetchIdle
SpecFound == FoundInit /\ [][Next]_vars

\* ------------------------------------------------- claims about the runs
StopsOnly(d) == Keys(d.mbta_bus_data) \ Keys(d.bus_route_shapes)
ShapesOnly(d) == Keys(d.bus_route_shapes) \ Keys(d.mbta_bus_data)
Complete(d) == Keys(d.mbta_bus_data) \cap Keys(d.bus_route_shapes)
\* the run's two dicts, as a dataset
Memory == [mbta_bus_data |-> mbta_bus_data, bus_route_shapes |-> bus_route_shapes]
InFull == pc \in {"full_loop", "full_save"}
InRepair == pc \in {"repair_loop", "repair_save"}
Calls(ev, r) == Cardinality({j \in 1..Len(log) : log[j].ev = ev /\ log[j].route = r})
\* a dict as a mapping (dict equality does not depend on the insertion order)
AsMap(d) == [k \in Keys(d) |-> Get(d, k)]
SameEntry(d, e, r) == Has(e, r) /\ Get(e, r) = Get(d, r)

\* C1: a repair run calls, for every route that had stops and no shapes in the
\* file loaded, the shape collector exactly once and the stop collector never;
\* symmetrically for a route with shapes and no stops; and no collector for a
\* route present in both maps. (mbta-bus-data.js is not written before the loop
\* ends, so during the run it is the file that was loaded.)
C1_TargetsMissingHalf ==
    InRepair =>
      \A r \in Routes :
        /\ r \in StopsOnly(jsFile) =>
             /\ Calls("stops", r) = 0
             /\ Calls("shapes", r) <= 1
             /\ pc = "repair_save" => Calls("shapes", r) = 1
        /\ r \in ShapesOnly(jsFile) =>
             /\ Calls("shapes", r) = 0
             /\ Calls("stops", r) <= 1
             /\ pc = "repair_save" => Calls("stops", r) = 1
        /\ r \in Complete(jsFile) => Calls("stops", r) = 0 /\ Calls("shapes", r) = 0
\* the loop of a repair run has ended over a file with a stops-only and a
\* shapes-only route
C1_Witness ==
    /\ pc = "repair_save"
    /\ <<"1">> \in StopsOnly(jsFile)
    /\ <<"4">> \in ShapesOnly(jsFile)
    /\ Calls("shapes", <<"1">>) = 1
    /\ Calls("stops", <<"4">>) = 1

\* C2: every route the route collector returned that lacks stops or lacks
\* shapes after the first pass (a route with neither included) is in the retry
\* list of a repair run that follows.
RetryList == IF InRepair THEN {routes[j] : j \in 1..Len(routes)} ELSE {}
C2_IncompleteRoutesRetried ==
    (run.kind = "repair" /\ run.ended \in {"no", "nothing"}) =>
      \A r \in fullRoutes :
        (~Has(jsFile.mbta_bus_data, r) \/ ~Has(jsFile.bus_route_shapes, r)) => r \in RetryList

\* C3: between runs the canonical JSON file and the embedded file hold the same
\* dataset.
C3_FilesAgree ==
    pc = "idle" =>
      /\ jsFile.exists = jsonFile.exists
      /\ AsMap(jsFile.mbta_bus_data) = AsMap(jsonFile.mbta_bus_data)
      /\ AsMap(jsFile.bus_route_shapes) = AsMap(jsonFile.bus_route_shapes)

\* C4: within a run, in the first pass as in the repair run, a value stored
\* for a route is never replaced by a value collected later.
C4_NeverOverwrites ==
    [][(pc # "idle" /\ pc' # "idle") =>
         \A r \in Routes :
           /\ Has(mbta_bus_data, r) => SameEntry(mbta_bus_data, mbta_bus_data', r)
           /\ Has(bus_route_shapes, r) => SameEntry(bus_route_shapes, bus_route_shapes', r)]_vars

\* C5: starting with no persisted file, every key of the two maps, in memory
\* and in the files written, maps to a non-empty sequence: an empty collector
\* result never inserts the route.
NonEmptyValues(d) == \A k \in Keys(d) : Get(d, k).t = "arr" /\ Truthy(Get(d, k))
C5_NoEmptyEntries ==
    /\ NonEmptyValues(mbta_bus_data) /\ NonEmptyValues(bus_route_shapes)
    /\ NonEmptyValues(jsFile.mbta_bus_data) /\ NonEmptyValues(jsFile.bus_route_shapes)
    /\ NonEmptyValues(jsonFile.mbta_bus_data) /\ NonEmptyValues(jsonFile.bus_route_shapes)
    /\ \A j \in 1..Len(log) :
         /\ (log[j].ev = "stops" /\ ~log[j].got /\ Calls("stops", log[j].route) = 1)
              => ~Has(mbta_bus_data, log[j].route)
         /\ (log[j].ev = "shapes" /\ ~log[j].got /\ Calls("shapes", log[j].route) = 1)
              => ~Has(bus_route_shapes, log[j].route)
\* a first pass got [] for the stops of a route and records for its shapes,
\* and a repair run then got [] again
C5_Witness ==
    /\ pc = "repair_save"
    /\ log # <<>>
    /\ log[1].ev = "stops" /\ ~log[1].got
    /\ ~Has(mbta_bus_data, log[1].route)
    /\ Has(bus_route_shapes, log[1].route)

\* C6: the set of routes present in both maps after a repair run is a superset
\* of the set present in both maps when the file was loaded.
C6_CompleteNeverShrinks ==
    /\ [](InRepair => Complete(jsFile) \subseteq Complete(Memory))
    /\ [][pc = "repair_save" => Complete(jsFile) \subseteq Complete(jsFile')]_vars
\* the loop of a repair run has ended with one more complete route than the
\* file loaded, which had a complete route already
C6_Witness ==
    /\ pc = "repair_save"
    /\ Complete(jsFile) # {}
    /\ Complete(Memory) # Complete(jsFile)

\* C7: a repair run leaves every entry that was populated when the file was
\* loaded unchanged in both maps, whether the fetch succeeds or fails; and when
\* the fetch of the missing half returns records, the route is in both maps
\* with the half it had unchanged.
Kept(d, e) == \A r \in Keys(d) : SameEntry(d, e, r)
C7_RepairKeepsEntries ==
    /\ [](InRepair =>
            /\ Kept(jsFile.mbta_bus_data, mbta_bus_data)
            /\ Kept(jsFile.bus_route_shapes, bus_route_shapes)
            /\ \A j \in 1..Len(log) :
                 (log[j].ev \in {"stops", "shapes"} /\ log[j].got) =>
                   log[j].route \in Complete(Memory))
    /\ [][pc = "repair_save" =>
            /\ Kept(jsFile.mbta_bus_data, jsFile'.mbta_bus_data)
            /\ Kept(jsFile.bus_route_shapes, jsFile'.bus_route_shapes)
            /\ \A j \in 1..Len(log) :
                 (log[j].ev \in {"stops", "shapes"} /\ log[j].got) =>
                   log[j].route \in Complete(jsFile')]_vars
\* the loop of a repair run has ended with one fetch that succeeded and one
\* that failed
C7_Witness ==
    /\ pc = "repair_save"
    /\ \E j \in 1..Len(log) : log[j].ev = "shapes" /\ log[j].got
    /\ \E j \in 1..Len(log) : log[j].ev = "stops" /\ ~log[j].got

\* C13: when the route-list fetch of a full-collection run yields nothing (an
\* error, a 429, or an answer without routes), the run ends without a stops or
\* shapes request and without creating or changing either file.
C13_EmptyRouteListAborts ==
    [][(pc = "idle" /\ run'.kind = "full" /\ run'.answer \in {"error", "429", "empty"}) =>
         /\ run'.ended = "aborted"
         /\ pc' = "idle"
         /\ log' = <<>>
         /\ jsFile' = jsFile
         /\ jsonFile' = jsonFile]_vars
\* a full run was refused the route list while files of an earlier run exist
C13_Witness ==
    /\ pc = "idle"
    /\ run.kind = "full" /\ run.ended = "aborted" /\ run.answer = "429"
    /\ jsFile.exists /\ jsonFile.exists
    /\ StopsOnly(jsFile) # {}

\* C14: a repair run that finds the embedded file absent, without one of the
\* two assignment prefixes or one of the two end delimiters, or with a value
\* that is no JSON, aborts: the file is left as it was and no request is issued.
C14_UnreadableFileAborts ==
    [][(pc = "idle" /\ run'.kind = "repair" /\ (~jsFile.exists \/ jsFile.damage # "none")) =>
         /\ run'.ended = "aborted"
         /\ pc' = "idle"
         /\ log' = <<>>
         /\ jsFile' = jsFile
         /\ jsonFile' = jsonFile]_vars
\* a repair run has aborted on a file with incomplete routes whose first value
\* is cut short
C14_Witness ==
    /\ pc = "idle"
    /\ run.kind = "repair" /\ run.ended = "aborted"
    /\ jsFile.exists /\ jsFile.damage = "bad_json"
    /\ StopsOnly(jsFile) # {}

\* C15: between any two consecutive fetches of a run (route list, stops,
\* shapes) there is a delay.
IsFetch(e) == e.ev \in {"routes", "stops", "shapes"}
C15_DelayBetweenFetches ==
    \A j \in 1..(Len(log) - 1) : ~(IsFetch(log[j]) /\ IsFetch(log[j + 1]))

\* C16: a full-collection run overwrites nothing: every entry persisted in
\* mbta-bus-data.js before the run is persisted with the same value after it.
C16_FullRunOverwritesNothing ==
    [][pc = "full_save" =>
         /\ Kept(jsFile.mbta_bus_data, jsFile'.mbta_bus_data)
         /\ Kept(jsFile.bus_route_shapes, jsFile'.bus_route_shapes)]_vars

\* C17: in a first pass over routes with distinct ids, both fetches are made
\* for every route, whatever the other returned, and a route is a key of the
\* stops map iff its stops fetch returned a record, a key of the shapes map iff
\* its shapes fetch returned a record.
GotFor(ev, r) == \E j \in 1..Len(log) : log[j].ev = ev /\ log[j].route = r /\ log[j].got
DistinctIds ==
    /\ \A j \in 1..Len(routes) : Has(routes[j], S_id)
    /\ \A a, b \in 1..Len(routes) : a # b => routes[a] # routes[b]
C17_FirstPassKeys ==
    (InFull /\ DistinctIds) =>
      /\ \A j \in 1..Len(routes) :
           LET r == RouteId(routes[j])
               n == IF j < idx THEN 1 ELSE 0 IN
           /\ Calls("stops", r) = n
           /\ Calls("shapes", r) = n
           /\ Has(mbta_bus_data, r) <=> GotFor("stops", r)
           /\ Has(bus_route_shapes, r) <=> GotFor("shapes", r)
      /\ Keys(mbta_bus_data) \cup Keys(bus_route_shapes)
           \subseteq {RouteId(routes[j]) : j \in 1..Len(routes)}
\* routes 1 and 4: stops for 1 only, shapes for 4 only
C17_Witness ==
    /\ pc = "full_save"
    /\ Len(routes) = 2
    /\ StopsOnly(Memory) = {<<"1">>}
    /\ ShapesOnly(Memory) = {<<"4">>}
    /\ ~GotFor("shapes", <<"1">>) /\ ~GotFor("stops", <<"4">>)

\* C18: when the upstream answers 429 or an error to the first route-list
\* request of a full-collection run, the request is retried (up to 3 requests
\* in all).
C18_RouteListRetried ==
    (run.kind = "full" /\ run.answer \in {"429", "error"}) => (run.asked >= 2 /\ run.asked <= 3)

\* C19: no exception escapes a run, whatever the upstream answers and
\* whatever the file holds.
C19_NoExceptionEscapes == run.ended # "raised"

\* C20: with an upstream that fails every request, a repair run over a file
\* with an incomplete route terminates: each collector call issues exactly 5
\* requests and returns [], each incomplete route gets one call, and the file
\* is rewritten with the dataset loaded, stops-only routes still stops-only and
\* shapes-only routes still shapes-only; and so for every repair run.
Failing == {TooManyRequests, TransportError, ServerError}
AllFailed == \A j \in 1..Len(log) : IsFetch(log[j]) => ~log[j].got
C20_FailingUpstreamRepair ==
    /\ []((InRepair /\ AllFailed) =>
            /\ \A x \in Failing, cfg \in {RepairStops, RepairShapes} :
                 LET call == Call(cfg, CallStart, Repeat(x, RepairMaxRetries + 1), 1) IN
                 call.outcome = "returned" /\ call.requests = 5 /\ call.result = EmptyList
            /\ mbta_bus_data = jsFile.mbta_bus_data
            /\ bus_route_shapes = jsFile.bus_route_shapes
            /\ pc = "repair_save" =>
                 \A r \in StopsOnly(jsFile) \cup ShapesOnly(jsFile) :
                   Calls("stops", r) + Calls("shapes", r) = 1)
    /\ [][(pc = "repair_save" /\ AllFailed) =>
            /\ jsFile' = jsFile
            /\ StopsOnly(jsFile') = StopsOnly(jsFile)
            /\ ShapesOnly(jsFile') = ShapesOnly(jsFile)]_vars
    /\ (InRepair ~> pc = "idle")
\* the loop of a repair run over a stops-only and a shapes-only route has ended
\* with every fetch failed, after an earlier repair run
C20_Witness ==
    /\ pc = "repair_save"
    /\ AllFailed
    /\ StopsOnly(jsFile) # {} /\ ShapesOnly(jsFile) # {}
    /\ Calls("shapes", <<"1">>) + Calls("stops", <<"4">>) = 2

\* C21: a repair run does not change the set of known routes: the union of
\* the keys of the two maps is, during the run and in the file written, the
\* union in the file loaded; the run does not ask for the route list and calls
\* collectors for known routes only; and when no route is incomplete it issues
\* no request and does not write the file.
Universe(d) == Keys(d.mbta_bus_data) \cup Keys(d.bus_route_shapes)
C21_RepairKeepsUniverse ==
    /\ [](InRepair =>
            /\ Universe(Memory) = Universe(jsFile)
            /\ run.asked = 0
            /\ \A j \in 1..Len(log) :
                 log[j].ev # "routes" /\ log[j].route \in Universe(jsFile))
    /\ [][pc = "repair_save" => Universe(jsFile') = Universe(jsFile)]_vars
    /\ [][(/\ pc = "idle" /\ run'.kind = "repair" /\ jsFile.exists
           /\ StopsOnly(jsFile) \cup ShapesOnly(jsFile) = {}) =>
            /\ run'.ended = "nothing"
            /\ run'.asked = 0
            /\ pc' = "idle"
            /\ log' = <<>>
            /\ jsFile' = jsFile
            /\ jsonFile' = jsonFile]_vars
\* the loop of a repair run over two known routes has ended, one route
\* completed and the other still incomplete
C21_Witness ==
    /\ pc = "repair_save"
    /\ Universe(jsFile) = Routes
    /\ Complete(Memory) # Complete(jsFile)
    /\ Complete(Memory) # Routes
\* a repair run over a file with a complete route and no incomplete one has ended
C21_NothingToDo ==
    /\ pc = "idle"
    /\ run.kind = "repair" /\ run.ended = "nothing"
    /\ Complete(jsFile) # {}

====
